---- MODULE Spec2Model ----
(***************************************************************************)
(* A model of sdb: the process-control engine (sdblib::Debugger), the      *)
(* command language (sdb/src/command.rs) and the interactive session       *)
(* (sdb/src/gui.rs, sdb/src/main.rs).                                      *)
(*                                                                         *)
(* The operating system is modelled by a process table `proc`: a process  *)
(* identifier is never handed out twice, a traced process stops or exits   *)
(* on its own at any time, and the terminal (an excluded boundary) never   *)
(* fails to draw.                                                          *)
(***************************************************************************)
EXTENDS Integers, Sequences, FiniteSets, TLC

VARIABLES
    proc,                \* OS process table: pid -> process state
    tracer,              \* OS: pid -> the thread that is the tracer of the process
    attached_processes,  \* Debugger.attached_processes (lib.rs:30)
    managed_processes,   \* Debugger.managed_processes (lib.rs:28)
    last_call,           \* the most recent engine call: what it did and returned
    pc,                  \* position of the control path (main / session loop / caller)
    wait_i,              \* Debugger::wait: index of the tracee being waited on
    ast,                 \* command.rs: the command being executed (parse_command's output)
    exec,                \* command.rs: what the last command execution did and returned
    history,             \* Gui.history (gui.rs:153)
    history_current,     \* Gui.history_current (gui.rs:154)
    index_history,       \* Gui.index_history (gui.rs:155)
    input,               \* Gui.input: the value of the line-editing widget (gui.rs:158)
    event,               \* run_impl: the event last received from the channel (gui.rs:196)
    child_output,        \* Gui.child_output (gui.rs:160)
    nav,                 \* a run of history moves: the text it started from, moves up, moves down
    rx,                  \* the unbounded channel from the event task to the session loop
    child_output_reader, \* the event task's child_output_reader (gui.rs:75)
    term_src,            \* the terminal event stream: "open" or "closed"
    child_src,           \* the child's standard output: "open", or "closed" once it ended
    loop_thread          \* the thread the control path runs on

os_vars == <<proc, tracer>>
dbg_vars == <<attached_processes, managed_processes, last_call, wait_i>>
cmd_vars == <<ast, exec>>
gui_vars == <<history, history_current, index_history, input, event, child_output, nav>>
mux_vars == <<rx, child_output_reader, term_src, child_src>>
vars == <<os_vars, dbg_vars, cmd_vars, gui_vars, mux_vars, pc, loop_thread>>

\* ----------------------------------------------------------------- bounds
MaxPid == 3        \* process identifiers 1..MaxPid exist in the model
NumForeign == 1    \* processes 1..NumForeign exist before the debugger starts

\* ------------------------------------------------------- program constants
I32Max == 2147483647   \* largest value of the native process id (pid_t = i32)

Pids == 1..MaxPid
MainThread == "main"
WorkerThread == "worker"

\* ------------------------------------------------------------ OS processes
\* "none": no such process yet; "foreign": exists, not traced by the debugger;
\* "running" / "stop_pending" / "stopped" / "zombie": traced by the debugger
\* ("stop_pending": stopped, the stop not yet reported by waitpid);
\* "gone": terminated and reaped.
ProcStates == {"none", "foreign", "running", "stop_pending", "stopped", "zombie", "gone"}

Sys(call, pid, th, ok) == [call |-> call, pid |-> pid, thread |-> th, ok |-> ok]

\* The record of an engine call: the operation, its arguments (pid_arg of
\* add_proc, prog_arg of add_program), its result, the system calls it issued in
\* order, and a bit n that flips at every add_proc and add_program.
CallOf(op, u, program, res, sys) ==
    [op |-> op, pid_arg |-> u, prog_arg |-> program, res |-> res, sys |-> sys,
     n |-> 1 - last_call.n]

Call(op, res, sys) ==
    [op |-> op, pid_arg |-> [hi |-> 0, lo |-> 0], prog_arg |-> "", res |-> res,
     sys |-> sys, n |-> last_call.n]

\* A 64-bit unsigned identifier, kept as hi * 2^31 + lo with 0 <= lo < 2^31.
U64(h, l) == [hi |-> h, lo |-> l]

\* u64 -> i32 by a truncating cast: the low 32 bits, read as signed.
TryIntoPidCast(u) ==
    [ok |-> TRUE, pid |-> IF u.hi % 2 = 0 THEN u.lo ELSE (u.lo - I32Max) - 1]

\* pid.try_into(): only values up to i32::MAX convert.
TryIntoPid(u) ==
    IF u.hi = 0 THEN [ok |-> TRUE, pid |-> u.lo] ELSE [ok |-> FALSE, pid |-> 0]

\* ptrace(PTRACE_ATTACH): the process must exist, must not be traced already,
\* and the caller must be allowed to trace it.
PtraceAttach(pr, p, perm) ==
    IF p \in Pids /\ pr[p] = "foreign" /\ perm
    THEN [ok |-> TRUE, proc |-> [pr EXCEPT ![p] = "running"]]
    ELSE [ok |-> FALSE, proc |-> pr]

\* ptrace(PTRACE_CONT): the tracee must be in a ptrace stop.
PtraceCont(pr, p) ==
    IF pr[p] \in {"stop_pending", "stopped"}
    THEN [ok |-> TRUE, proc |-> [pr EXCEPT ![p] = "running"]]
    ELSE [ok |-> FALSE, proc |-> pr]

\* waitpid(pid, None): blocks while the tracee has no unreported state change.
WaitPid(pr, p) ==
    CASE pr[p] = "stop_pending" -> [blocks |-> FALSE, ok |-> TRUE, proc |-> [pr EXCEPT ![p] = "stopped"]]
      [] pr[p] = "zombie" -> [blocks |-> FALSE, ok |-> TRUE, proc |-> [pr EXCEPT ![p] = "gone"]]
      [] pr[p] \in {"running", "stopped"} -> [blocks |-> TRUE, ok |-> FALSE, proc |-> pr]
      [] OTHER -> [blocks |-> FALSE, ok |-> FALSE, proc |-> pr]

\* The identifier the OS gives the next new process.
FreshPid(pr) == CHOOSE p \in Pids : pr[p] = "none" /\ \A q \in Pids : pr[q] = "none" => p <= q

\* Command::spawn with the traceme pre_exec hook and a piped stdout.
Spawn(pr, program, traceme_ok) ==
    IF program = "missing" \/ ~traceme_ok \/ \A p \in Pids : pr[p] # "none"
    THEN [ok |-> FALSE, pid |-> 0, proc |-> pr]
    ELSE [ok |-> TRUE, pid |-> FreshPid(pr),
          proc |-> [pr EXCEPT ![FreshPid(pr)] = "running"]]

\* Child::kill: SIGKILL to the child; fails once the child has been reaped.
ChildKill(pr, p) ==
    IF pr[p] \in {"running", "stop_pending", "stopped"}
    THEN [ok |-> TRUE, proc |-> [pr EXCEPT ![p] = "zombie"]]
    ELSE [ok |-> pr[p] = "zombie", proc |-> pr]

\* Child::wait: collects the exit status of the killed child.
ChildWait(pr, p) ==
    IF pr[p] = "zombie"
    THEN [ok |-> TRUE, proc |-> [pr EXCEPT ![p] = "gone"]]
    ELSE [ok |-> FALSE, proc |-> pr]

\* ------------------------------------------------------- sdblib::Debugger
\* Debugger::add_proc
AddProc(att, pr, u, perm, th) ==
    LET c == TryIntoPid(u) IN
    IF ~c.ok
    THEN [att |-> att, proc |-> pr, res |-> "err", sys |-> <<>>]
    ELSE LET a == PtraceAttach(pr, c.pid, perm) IN
         IF ~a.ok
         THEN [att |-> att, proc |-> pr, res |-> "err",
               sys |-> <<Sys("attach", c.pid, th, FALSE)>>]
         ELSE [att |-> Append(att, c.pid), proc |-> a.proc, res |-> "ok",
               sys |-> <<Sys("attach", c.pid, th, TRUE)>>]

\* Debugger::add_program with the pid never registered in attached_processes.
AddProgramNoTracee(att, man, pr, program, traceme_ok, th) ==
    LET sp == Spawn(pr, program, traceme_ok) IN
    IF ~sp.ok
    THEN [att |-> att, man |-> man, proc |-> pr, res |-> "err", out |-> 0, sys |-> <<>>]
    ELSE [att |-> att, man |-> Append(man, [pid |-> sp.pid, stdout |-> "None"]),
          proc |-> sp.proc, res |-> "ok", out |-> sp.pid,
          sys |-> <<Sys("spawn", sp.pid, th, TRUE)>>]

\* Debugger::add_program
AddProgram(att, man, pr, program, traceme_ok, th) ==
    LET sp == Spawn(pr, program, traceme_ok) IN
    IF ~sp.ok
    THEN [att |-> att, man |-> man, proc |-> pr, res |-> "err", out |-> 0, sys |-> <<>>]
    ELSE LET child == [pid |-> sp.pid, stdout |-> "Some"]
             att2 == Append(att, child.pid)
             taken == child.stdout
             man2 == Append(man, [child EXCEPT !.stdout = "None"])
         IN [att |-> att2, man |-> man2, proc |-> sp.proc,
             res |-> IF taken = "Some" THEN "ok" ELSE "err",
             out |-> IF taken = "Some" THEN child.pid ELSE 0,
             sys |-> <<Sys("spawn", sp.pid, th, TRUE)>>]

RECURSIVE ContFrom(_, _, _, _, _)
ContFrom(att, i, pr, sys, th) ==
    IF i > Len(att)
    THEN [res |-> "ok", proc |-> pr, sys |-> sys]
    ELSE LET c == PtraceCont(pr, att[i]) IN
         IF c.ok
         THEN ContFrom(att, i + 1, c.proc, Append(sys, Sys("cont", att[i], th, TRUE)), th)
         ELSE [res |-> "err", proc |-> pr, sys |-> Append(sys, Sys("cont", att[i], th, FALSE))]

\* Debugger::continue_execution
ContinueExecution(att, pr, th) == ContFrom(att, 1, pr, <<>>, th)

RECURSIVE DropFromAbort(_, _, _, _, _)
DropFromAbort(man, i, pr, sys, th) ==
    IF i > Len(man)
    THEN [proc |-> pr, sys |-> sys]
    ELSE LET k == ChildKill(pr, man[i].pid)
             w == ChildWait(k.proc, man[i].pid)
             s2 == sys \o <<Sys("kill", man[i].pid, th, k.ok),
                            Sys("reap", man[i].pid, th, w.ok)>>
         IN IF k.ok /\ w.ok THEN DropFromAbort(man, i + 1, w.proc, s2, th)
            ELSE [proc |-> w.proc, sys |-> s2]

\* Drop with the first failing kill or wait ending the loop.
DropAbort(man, pr, th) == DropFromAbort(man, 1, pr, <<>>, th)

RECURSIVE DropFrom(_, _, _, _, _)
DropFrom(man, i, pr, sys, th) ==
    IF i > Len(man)
    THEN [proc |-> pr, sys |-> sys]
    ELSE LET k == ChildKill(pr, man[i].pid)
             w == ChildWait(k.proc, man[i].pid)
         IN DropFrom(man, i + 1, w.proc,
                     sys \o <<Sys("kill", man[i].pid, th, k.ok),
                              Sys("reap", man[i].pid, th, w.ok)>>, th)

\* impl Drop for Debugger
Drop(man, pr, th) == DropFrom(man, 1, pr, <<>>, th)

\* ------------------------------------------------- command.rs: the AST
\* Commands (command.rs:10-16).  Text is a sequence of one-character strings.
Continue == [k |-> "Continue", cmds |-> <<>>, msg |-> <<>>]
Exit == [k |-> "Exit", cmds |-> <<>>, msg |-> <<>>]
Sequence(commands) == [k |-> "Sequence", cmds |-> commands, msg |-> <<>>]
Error(run) == [k |-> "Error", cmds |-> <<>>, msg |-> run]

\* One executed leaf of the AST: its kind and, for Continue, whether the engine
\* call succeeded and the system calls it issued.
Step(k, ok, sys) == [k |-> k, ok |-> ok, sys |-> sys]

RECURSIVE RunCommandAst(_, _, _, _)
RECURSIVE RunSequence(_, _, _, _, _)
RECURSIVE RunSequencePastExit(_, _, _, _, _)
RECURSIVE RunSequencePastError(_, _, _, _, _)

\* The Sequence arm with the boolean of the inner call dropped.
RunSequencePastExit(commands, i, att, pr, th) ==
    IF i > Len(commands)
    THEN [res |-> "true", proc |-> pr, steps |-> <<>>, out |-> <<>>]
    ELSE LET r == RunCommandAst(commands[i], att, pr, th) IN
         IF r.res = "err" THEN r
         ELSE LET rest == RunSequencePastExit(commands, i + 1, att, r.proc, th) IN
              [res |-> rest.res, proc |-> rest.proc,
               steps |-> r.steps \o rest.steps, out |-> r.out \o rest.out]

\* The Sequence arm with the error of the inner call dropped.
RunSequencePastError(commands, i, att, pr, th) ==
    IF i > Len(commands)
    THEN [res |-> "true", proc |-> pr, steps |-> <<>>, out |-> <<>>]
    ELSE LET r == RunCommandAst(commands[i], att, pr, th) IN
         IF r.res = "false" THEN r
         ELSE LET rest == RunSequencePastError(commands, i + 1, att, r.proc, th) IN
              [res |-> rest.res, proc |-> rest.proc,
               steps |-> r.steps \o rest.steps, out |-> r.out \o rest.out]

\* run_command_ast, the Sequence arm: the for loop from element i on.
RunSequence(commands, i, att, pr, th) ==
    IF i > Len(commands)
    THEN [res |-> "true", proc |-> pr, steps |-> <<>>, out |-> <<>>]
    ELSE LET r == RunCommandAst(commands[i], att, pr, th) IN
         IF r.res # "true" THEN r
         ELSE LET rest == RunSequence(commands, i + 1, att, r.proc, th) IN
              [res |-> rest.res, proc |-> rest.proc,
               steps |-> r.steps \o rest.steps, out |-> r.out \o rest.out]

\* run_command_ast: res is "true" / "false" (Ok(bool)) or "err"; steps are the
\* leaves executed, in order; out the lines written.
\* run_command_ast with an Error node ending the run like an Exit.
RunCommandAstErrorEnds(command, att, pr, th) ==
    CASE command.k = "Continue" ->
            LET c == ContinueExecution(att, pr, th) IN
            [res |-> IF c.res = "ok" THEN "true" ELSE "err", proc |-> c.proc,
             steps |-> <<Step("Continue", c.res = "ok", c.sys)>>, out |-> <<>>]
      [] command.k = "Exit" ->
            [res |-> "false", proc |-> pr, steps |-> <<Step("Exit", TRUE, <<>>)>>, out |-> <<>>]
      [] command.k = "Sequence" -> RunSequence(command.cmds, 1, att, pr, th)
      [] command.k = "Error" ->
            [res |-> "false", proc |-> pr, steps |-> <<Step("Error", TRUE, <<>>)>>,
             out |-> <<command.msg>>]

RunCommandAst(command, att, pr, th) ==
    CASE command.k = "Continue" ->
            LET c == ContinueExecution(att, pr, th) IN
            [res |-> IF c.res = "ok" THEN "true" ELSE "err", proc |-> c.proc,
             steps |-> <<Step("Continue", c.res = "ok", c.sys)>>, out |-> <<>>]
      [] command.k = "Exit" ->
            [res |-> "false", proc |-> pr, steps |-> <<Step("Exit", TRUE, <<>>)>>, out |-> <<>>]
      [] command.k = "Sequence" -> RunSequence(command.cmds, 1, att, pr, th)
      [] command.k = "Error" ->
            [res |-> "true", proc |-> pr, steps |-> <<Step("Error", TRUE, <<>>)>>,
             out |-> <<command.msg>>]

\* ---------------------------------------------- command.rs: the parser
\* Positions are 1-based indexes into the text; a diagnostic spans [from, to).
Alphabetic == {"a", "b", "c", "d", "e", "f", "g", "h", "i", "j", "k", "l", "m",
               "n", "o", "p", "q", "r", "s", "t", "u", "v", "w", "x", "y", "z"}
Whitespace == {" ", "\t"}

T_continue == <<"c", "o", "n", "t", "i", "n", "u", "e">>
T_exit == <<"e", "x", "i", "t">>

RECURSIVE SkipWs(_, _)
SkipWs(s, i) == IF i <= Len(s) /\ s[i] \in Whitespace THEN SkipWs(s, i + 1) ELSE i

RECURSIVE TrimEnd(_)
TrimEnd(s) ==
    IF Len(s) > 0 /\ s[Len(s)] \in Whitespace THEN TrimEnd(SubSeq(s, 1, Len(s) - 1)) ELSE s

\* str::trim
Trim(s) == TrimEnd(SubSeq(s, SkipWs(s, 1), Len(s)))

RECURSIVE MatchLen(_, _, _, _)
MatchLen(s, i, kw, n) ==
    IF n < Len(kw) /\ i + n <= Len(s) /\ s[i + n] = kw[n + 1]
    THEN MatchLen(s, i, kw, n + 1) ELSE n

\* just(kw) at position j, the padding before it skipped from i: n characters of
\* kw matched; `at` is where the match stopped.
JustAt(s, i, kw, j, n) ==
    IF n = Len(kw)
    THEN [ok |-> TRUE, next |-> SkipWs(s, j + n), at |-> j + n]
    ELSE [ok |-> FALSE, next |-> i, at |-> j + n]

PaddedFrom(s, i, kw, j) == JustAt(s, i, kw, j, MatchLen(s, j, kw, 0))

\* just(kw).padded() at position i
JustPadded(s, i, kw) == PaddedFrom(s, i, kw, SkipWs(s, i))

RECURSIVE AlphaEnd(_, _)
AlphaEnd(s, i) == IF i <= Len(s) /\ s[i] \in Alphabetic THEN AlphaEnd(s, i + 1) ELSE i

AlphaRun(s, i, n) ==
    IF n > i THEN [ok |-> TRUE, cmd |-> Error(SubSeq(s, i, n - 1)), next |-> n]
    ELSE [ok |-> FALSE, cmd |-> Error(<<>>), next |-> i]

\* error_command: a run of at least one alphabetic character, not padded.
ErrorCommand(s, i) == AlphaRun(s, i, AlphaEnd(s, i))

\* The choice of the two keywords (c, e), recovered via error_command (r) from the
\* position the choice started at; a recovery emits the choice's error, which is
\* at the furthest position an alternative reached (at).
Recovered(i, c, e, r, at) ==
    IF c.ok THEN [ok |-> TRUE, cmd |-> Continue, next |-> c.next, errs |-> <<>>, at |-> at]
    ELSE IF e.ok THEN [ok |-> TRUE, cmd |-> Exit, next |-> e.next, errs |-> <<>>, at |-> at]
    ELSE IF r.ok THEN [ok |-> TRUE, cmd |-> r.cmd, next |-> r.next,
                       errs |-> <<[from |-> at, to |-> at + 1]>>, at |-> at]
    ELSE [ok |-> FALSE, cmd |-> r.cmd, next |-> i, errs |-> <<>>, at |-> at]

Choice(i, c, e, r) == Recovered(i, c, e, r, IF c.at >= e.at THEN c.at ELSE e.at)

\* single_command
SingleCommand(s, i) ==
    Choice(i, JustPadded(s, i, T_continue), JustPadded(s, i, T_exit), ErrorCommand(s, i))

RECURSIVE SeparatedBy(_, _, _, _)

\* separated_by, after the separator: an item (c) that fails ends the list before
\* the separator, at i.
Item(s, i, acc, errs, c) ==
    IF c.ok THEN SeparatedBy(s, c.next, Append(acc, c.cmd), errs \o c.errs)
    ELSE [cmds |-> acc, next |-> i, errs |-> errs, at |-> c.at]

\* single_command.separated_by(just(";")) from position i, with the items parsed
\* so far.
SeparatedBy(s, i, acc, errs) ==
    IF acc # <<>> /\ ~(i <= Len(s) /\ s[i] = ";")
    THEN [cmds |-> acc, next |-> i, errs |-> errs, at |-> i]
    ELSE Item(s, i, acc, errs, SingleCommand(s, IF acc = <<>> THEN i ELSE i + 1))

\* parse(): the list (r) must be followed by the end of the input.
ThenEnd(s, r) ==
    IF r.next = Len(s) + 1
    THEN [some |-> TRUE, cmd |-> Sequence(r.cmds), errs |-> r.errs]
    ELSE [some |-> FALSE, cmd |-> Sequence(<<>>),
          errs |-> Append(r.errs, [from |-> r.at, to |-> r.at + 1])]

\* parser().parse(s)
Parser(s) == ThenEnd(s, SeparatedBy(s, 1, <<>>, <<>>))

\* parse_command
ParseCommand(command_str) == Parser(Trim(command_str))

\* run_command (command.rs), the command parsed to p.
RunParsed(p, att, pr, th) ==
    IF ~p.some
    THEN [res |-> "true", proc |-> pr, steps |-> <<>>, out |-> <<>>]
    ELSE RunCommandAst(p.cmd, att, pr, th)

\* run_command (command.rs)
RunCommand(command, att, pr, th) == RunParsed(ParseCommand(command), att, pr, th)

\* -------------------------------------------------------- gui.rs: Gui
\* The history fields of a Gui as one record.
GuiOf(h, hc, ih, inp) ==
    [history |-> h, history_current |-> hc, index_history |-> ih, input |-> inp]

\* usize::saturating_add_signed (the upper saturation is out of the model's reach)
SaturatingAddSigned(x, d) == IF x + d < 0 THEN 0 ELSE x + d

\* move_history with the in-progress edit captured on every move to an entry.
MoveHistoryAlwaysCapture(g, direction) ==
    LET new_index == SaturatingAddSigned(g.index_history, direction) IN
    IF g.history = <<>> \/ new_index > Len(g.history) \/ g.index_history = new_index
    THEN g
    ELSE IF new_index = Len(g.history)
         THEN [g EXCEPT !.index_history = new_index, !.input = g.history_current]
         ELSE [g EXCEPT !.history_current = g.input,
                        !.index_history = new_index,
                        !.input = g.history[new_index + 1]]

\* move_history with the new index clamped to 0..=len, the move then made anyway.
MoveHistoryClamped(g, direction) ==
    IF g.history = <<>> THEN [g EXCEPT !.input = g.history_current]
    ELSE LET moved == SaturatingAddSigned(g.index_history, direction)
             new_index == IF moved > Len(g.history) THEN Len(g.history) ELSE moved
         IN IF new_index = Len(g.history)
            THEN [g EXCEPT !.index_history = new_index, !.input = g.history_current]
            ELSE [g EXCEPT
                    !.history_current =
                        IF g.index_history = Len(g.history) THEN g.input ELSE @,
                    !.index_history = new_index,
                    !.input = g.history[new_index + 1]]

\* Gui::move_history (history[n] of the source is history[n + 1] here)
MoveHistory(g, direction) ==
    IF g.history = <<>> THEN g
    ELSE LET new_index == SaturatingAddSigned(g.index_history, direction) IN
         IF new_index > Len(g.history) THEN g
         ELSE IF g.index_history = new_index THEN g
         ELSE IF new_index = Len(g.history)
              THEN [g EXCEPT !.index_history = new_index, !.input = g.history_current]
              ELSE [g EXCEPT
                      !.history_current =
                          IF g.index_history = Len(g.history) THEN g.input ELSE @,
                      !.index_history = new_index,
                      !.input = g.history[new_index + 1]]

\* Gui::run_command, lines 269-280, with a reused command not pushed again.
SubmitNoDuplicate(g) ==
    IF g.input = <<>> /\ g.history = <<>>
    THEN [noop |-> TRUE, command |-> <<>>, g |-> g]
    ELSE IF g.input = <<>>
         THEN [noop |-> FALSE, command |-> g.history[Len(g.history)],
               g |-> [g EXCEPT !.index_history = Len(g.history), !.history_current = <<>>]]
         ELSE [noop |-> FALSE, command |-> g.input,
               g |-> [g EXCEPT !.input = <<>>,
                               !.history = Append(@, g.input),
                               !.index_history = Len(g.history) + 1,
                               !.history_current = <<>>]]

\* Gui::run_command, lines 269-280, with the empty line submitted like any other.
SubmitEmptyLine(g) ==
    LET command == IF g.input = <<>> /\ g.history # <<>>
                   THEN g.history[Len(g.history)] ELSE g.input IN
    [noop |-> FALSE, command |-> command,
     g |-> [g EXCEPT !.input = <<>>,
                     !.history = Append(@, command),
                     !.index_history = Len(g.history) + 1,
                     !.history_current = <<>>]]

\* Gui::run_command, lines 269-280, with history_current left as it was.
SubmitKeepsScratch(g) ==
    LET typed == g.input
        g1 == [g EXCEPT !.input = <<>>]
    IN IF typed = <<>> /\ g.history = <<>>
       THEN [noop |-> TRUE, command |-> <<>>, g |-> g1]
       ELSE LET command == IF typed = <<>> THEN g.history[Len(g.history)] ELSE typed IN
            [noop |-> FALSE, command |-> command,
             g |-> [g1 EXCEPT !.history = Append(@, command),
                              !.index_history = Len(g.history) + 1]]

\* Gui::run_command, lines 269-280: the command to run and the Gui after the push.
Submit(g) ==
    LET typed == g.input
        g1 == [g EXCEPT !.input = <<>>]
    IN IF typed = <<>> /\ g.history = <<>>
       THEN [noop |-> TRUE, command |-> <<>>, g |-> g1]
       ELSE LET command == IF typed = <<>> THEN g.history[Len(g.history)] ELSE typed IN
            [noop |-> FALSE, command |-> command,
             g |-> [g1 EXCEPT !.history = Append(@, command),
                              !.index_history = Len(g.history) + 1,
                              !.history_current = <<>>]]

\* ------------------------------------------------------------ environment
\* A traced, running process stops (a signal, the SIGSTOP of attach, the
\* SIGTRAP of exec).
EnvStop(p) ==
    /\ pc # "dropped"
    /\ proc[p] = "running"
    /\ proc' = [proc EXCEPT ![p] = "stop_pending"]
    /\ UNCHANGED <<tracer, dbg_vars, cmd_vars, gui_vars, mux_vars, pc, loop_thread>>

\* A traced process terminates.
EnvExit(p) ==
    /\ pc # "dropped"
    /\ proc[p] \in {"running", "stop_pending", "stopped"}
    /\ proc' = [proc EXCEPT ![p] = "zombie"]
    /\ UNCHANGED <<tracer, dbg_vars, cmd_vars, gui_vars, mux_vars, pc, loop_thread>>

\* ------------------------------------------- the engine under any caller
AttachInputs == {U64(h, l) : h \in {0, 1, 2}, l \in (0..MaxPid) \cup {I32Max}}
Programs == {"prog", "missing"}

\* last_call after a command execution: the last continue_execution() it made.
AfterEngineCalls(steps) ==
    LET conts == {j \in 1..Len(steps) : steps[j].k = "Continue"} IN
    IF conts = {} THEN last_call
    ELSE LET j == CHOOSE m \in conts : \A q \in conts : q <= m IN
         Call("continue_execution", IF steps[j].ok THEN "ok" ELSE "err", steps[j].sys)

InitDebugger ==
    /\ proc = [p \in Pids |-> IF p <= NumForeign THEN "foreign" ELSE "none"]
    /\ tracer = [p \in Pids |-> "none"]
    /\ attached_processes = <<>>
    /\ managed_processes = <<>>
    /\ last_call = [op |-> "new", pid_arg |-> U64(0, 0), prog_arg |-> "", res |-> "ok",
                    sys |-> <<>>, n |-> 0]
    /\ wait_i = 0

SetTracer(tr, sys) ==
    [p \in Pids |-> IF \E k \in 1..Len(sys) :
                          sys[k].pid = p /\ sys[k].ok /\ sys[k].call \in {"attach", "spawn"}
                    THEN sys[1].thread ELSE tr[p]]

CallAddProc(u, perm, th) ==
    LET r == AddProc(attached_processes, proc, u, perm, th) IN
    /\ attached_processes' = r.att
    /\ proc' = r.proc
    /\ tracer' = SetTracer(tracer, r.sys)
    /\ last_call' = CallOf("add_proc", u, "", r.res, r.sys)
    /\ UNCHANGED managed_processes

CallAddProgram(program, traceme_ok, th) ==
    LET r == AddProgram(attached_processes, managed_processes, proc, program, traceme_ok, th) IN
    /\ attached_processes' = r.att
    /\ managed_processes' = r.man
    /\ proc' = r.proc
    /\ tracer' = SetTracer(tracer, r.sys)
    /\ last_call' = CallOf("add_program", U64(0, 0), program, r.res, r.sys)

CallContinue(th) ==
    LET r == ContinueExecution(attached_processes, proc, th) IN
    /\ proc' = r.proc
    /\ last_call' = Call("continue_execution", r.res, r.sys)
    /\ UNCHANGED <<tracer, attached_processes, managed_processes>>

CallDrop(th) ==
    LET r == Drop(managed_processes, proc, th) IN
    /\ proc' = r.proc
    /\ last_call' = Call("drop", "ok", r.sys)
    /\ UNCHANGED <<tracer, attached_processes, managed_processes>>

\* Debugger::wait, entered: nothing waited on yet.
WaitBegin(th) ==
    /\ wait_i' = 1
    /\ last_call' = Call("wait", "pending", <<>>)
    /\ UNCHANGED <<proc, tracer, attached_processes, managed_processes>>

\* Debugger::wait, one turn of its loop (or its return): enabled once waitpid
\* on the current tracee does not block.  `back` is where the caller resumes.
WaitStep(th, back) ==
    /\ wait_i >= 1
    /\ IF wait_i > Len(attached_processes)
       THEN /\ last_call' = [last_call EXCEPT !.res = "ok"]
            /\ wait_i' = 0
            /\ pc' = back
            /\ UNCHANGED proc
       ELSE LET w == WaitPid(proc, attached_processes[wait_i]) IN
            /\ ~w.blocks
            /\ proc' = w.proc
            /\ last_call' = [last_call EXCEPT
                   !.res = IF w.ok THEN "pending" ELSE "err",
                   !.sys = Append(@, Sys("waitpid", attached_processes[wait_i], th, w.ok))]
            /\ wait_i' = IF w.ok THEN wait_i + 1 ELSE 0
            /\ pc' = IF w.ok THEN pc ELSE back
    /\ UNCHANGED <<tracer, attached_processes, managed_processes>>

EngAddProc ==
    /\ pc = "idle"
    /\ \E u \in AttachInputs, perm \in BOOLEAN : CallAddProc(u, perm, loop_thread)
    /\ UNCHANGED <<pc, wait_i>>
    /\ UNCHANGED <<cmd_vars, gui_vars, mux_vars, loop_thread>>

EngAddProgram ==
    /\ pc = "idle"
    /\ \E program \in Programs, traceme_ok \in BOOLEAN :
           CallAddProgram(program, traceme_ok, loop_thread)
    /\ UNCHANGED <<pc, wait_i>>
    /\ UNCHANGED <<cmd_vars, gui_vars, mux_vars, loop_thread>>

EngContinue ==
    /\ pc = "idle"
    /\ CallContinue(loop_thread)
    /\ UNCHANGED <<pc, wait_i>>
    /\ UNCHANGED <<cmd_vars, gui_vars, mux_vars, loop_thread>>

EngWaitBegin ==
    /\ pc = "idle"
    /\ WaitBegin(loop_thread)
    /\ pc' = "wait"
    /\ UNCHANGED <<cmd_vars, gui_vars, mux_vars, loop_thread>>

EngWaitStep ==
    /\ pc = "wait"
    /\ WaitStep(loop_thread, "idle")
    /\ UNCHANGED <<cmd_vars, gui_vars, mux_vars, loop_thread>>

EngDrop ==
    /\ pc = "idle"
    /\ CallDrop(loop_thread)
    /\ pc' = "dropped"
    /\ UNCHANGED wait_i
    /\ UNCHANGED <<cmd_vars, gui_vars, mux_vars, loop_thread>>

Env == \E p \in Pids : EnvStop(p) \/ EnvExit(p)

NextEngine ==
    \/ EngAddProc
    \/ EngAddProgram
    \/ EngContinue
    \/ EngWaitBegin
    \/ EngWaitStep
    \/ EngDrop
    \/ Env

\* The parts of the state a specification does not use.
NoCommand == [text |-> <<>>, res |-> "none", steps |-> <<>>, out |-> <<>>]
NoEvent == [kind |-> "None", key |-> ""]
NoNav == [on |-> FALSE, orig |-> <<>>, ups |-> 0, downs |-> 0]

NoAst == [some |-> FALSE, cmd |-> Sequence(<<>>)]

InitCommand == ast = NoAst /\ exec = NoCommand

InitGui ==
    /\ history = <<>>
    /\ history_current = <<>>
    /\ index_history = 0
    /\ input = <<>>
    /\ event = NoEvent
    /\ child_output = "None"
    /\ nav = NoNav

InitMux ==
    /\ rx = <<>>
    /\ child_output_reader = "None"
    /\ term_src = "open"
    /\ child_src = "closed"

InitEngine ==
    /\ InitDebugger /\ InitCommand /\ InitGui /\ InitMux
    /\ pc = "idle"
    /\ loop_thread = MainThread

SpecEngine == InitEngine /\ [][NextEngine]_vars

\* ---------------------------------------------------- claims on the engine
SpawnedPids == {managed_processes[i].pid : i \in 1..Len(managed_processes)}
AttachedOnly == {attached_processes[j] : j \in 1..Len(attached_processes)} \ SpawnedPids

\* C1: when continue_execution() returns successfully, no tracee it resumed is
\* still running (each has stopped again or exited).
C1_ContinueReturnsAfterStop ==
    (last_call.op = "continue_execution" /\ last_call.res = "ok")
        => \A k \in 1..Len(last_call.sys) :
               last_call.sys[k].ok => proc[last_call.sys[k].pid] # "running"

\* C3: every owned child handle has exactly one entry in the tracee set, no two
\* handles share a process, and a spawn adds to both collections or to neither.
C3_HandlesMatchTracees ==
    /\ [](/\ \A i \in 1..Len(managed_processes) :
                Cardinality({j \in 1..Len(attached_processes) :
                                 attached_processes[j] = managed_processes[i].pid}) = 1
          /\ \A i, k \in 1..Len(managed_processes) :
                managed_processes[i].pid = managed_processes[k].pid => i = k)
    /\ [][(last_call'.op = "add_program" /\ last_call'.n # last_call.n)
            => \/ /\ attached_processes' = attached_processes
                  /\ managed_processes' = managed_processes
               \/ /\ Len(managed_processes') = Len(managed_processes) + 1
                  /\ SubSeq(managed_processes', 1, Len(managed_processes)) = managed_processes
                  /\ attached_processes' =
                         Append(attached_processes,
                                managed_processes'[Len(managed_processes')].pid)]_vars

C3_Witness ==
    /\ last_call.op = "add_program" /\ last_call.res = "err"
    /\ Len(managed_processes) >= 2
    /\ Len(attached_processes) > Len(managed_processes)

\* C6: an attach or spawn that returns an error leaves the tracee set and the
\* owned children as they were; an identifier above the native signed range fails
\* with no tracing request issued, and a program that cannot be launched fails.
C6_FailedAddChangesNothing ==
    /\ [][(/\ last_call'.n # last_call.n
            /\ last_call'.op \in {"add_proc", "add_program"}
            /\ last_call'.res = "err")
            => /\ attached_processes' = attached_processes
               /\ managed_processes' = managed_processes]_vars
    /\ []((last_call.op = "add_proc" /\ last_call.pid_arg.hi > 0)
            => (last_call.res = "err" /\ last_call.sys = <<>>))
    /\ []((last_call.op = "add_program" /\ last_call.prog_arg = "missing")
            => last_call.res = "err")

C6_Witness ==
    /\ last_call.op = "add_proc" /\ last_call.res = "err"
    /\ last_call.pid_arg = U64(2, 1)
    /\ Len(managed_processes) >= 1
    /\ Len(attached_processes) > Len(managed_processes)

\* C7: teardown kills and then reaps every spawned tracee in order, leaves every
\* other process as it was, does not raise, and goes on after a failed kill or reap.
C7_DropKillsAndReapsSpawnedOnly ==
    [][(pc' = "dropped" /\ pc # "dropped")
        => /\ last_call'.op = "drop" /\ last_call'.res = "ok"
           /\ Len(last_call'.sys) = 2 * Len(managed_processes)
           /\ \A i \in 1..Len(managed_processes) :
                 /\ last_call'.sys[2 * i - 1].call = "kill"
                 /\ last_call'.sys[2 * i - 1].pid = managed_processes[i].pid
                 /\ last_call'.sys[2 * i].call = "reap"
                 /\ last_call'.sys[2 * i].pid = managed_processes[i].pid
                 /\ proc'[managed_processes[i].pid] = "gone"
           /\ \A p \in Pids \ SpawnedPids : proc'[p] = proc[p]]_vars

C7_Witness ==
    /\ pc = "dropped"
    /\ Len(managed_processes) = 2
    /\ ~last_call.sys[1].ok /\ ~last_call.sys[2].ok
    /\ last_call.sys[3].ok /\ last_call.sys[4].ok
    /\ AttachedOnly # {}
    /\ \A p \in AttachedOnly : proc[p] \in {"running", "stop_pending", "stopped"}

\* ------------------------------------------- the executor on bounded ASTs
MaxSeqLen == 2     \* bound: the longest Sequence in an executed AST

SeqsOver(S) == UNION {[1..n -> S] : n \in 0..MaxSeqLen}
Leaves == {Continue, Exit, Error(<<"x">>)}
Inner == Leaves \cup {Sequence(cs) : cs \in SeqsOver(Leaves)}
AstSet == Inner \cup {Sequence(cs) : cs \in SeqsOver(Inner)}

\* The leaves of an AST in execution order (depth first, left to right).
RECURSIVE Flatten(_)
RECURSIVE FlattenAll(_, _)
FlattenAll(commands, i) ==
    IF i > Len(commands) THEN <<>> ELSE Flatten(commands[i]) \o FlattenAll(commands, i + 1)
Flatten(command) ==
    IF command.k = "Sequence" THEN FlattenAll(command.cmds, 1) ELSE <<command.k>>

\* The engine before the command: no tracee, or process 1 attached and stopped
\* or running.  The command: an AST, or none (parse_command returned None).
InitAst ==
    /\ InitDebugger /\ InitGui /\ InitMux
    /\ pc = "idle"
    /\ loop_thread = MainThread
    /\ exec = NoCommand
    /\ ast \in {[some |-> TRUE, cmd |-> c] : c \in AstSet} \cup {NoAst}

AstAttach ==
    /\ pc = "idle"
    /\ \E perm \in BOOLEAN : CallAddProc(U64(0, 1), perm, loop_thread)
    /\ pc' = "ready"
    /\ UNCHANGED <<wait_i, cmd_vars, gui_vars, mux_vars, loop_thread>>

AstEnv ==
    /\ pc = "ready"
    /\ \E p \in Pids : EnvStop(p)

AstRun ==
    /\ pc = "ready"
    /\ LET r == RunParsed(ast, attached_processes, proc, loop_thread) IN
       /\ exec' = [text |-> <<>>, res |-> r.res, steps |-> r.steps, out |-> r.out]
       /\ proc' = r.proc
       /\ last_call' = AfterEngineCalls(r.steps)
    /\ pc' = "done"
    /\ UNCHANGED <<tracer, attached_processes, managed_processes, wait_i, ast,
                   gui_vars, mux_vars, loop_thread>>

NextAst == AstAttach \/ AstEnv \/ AstRun

SpecAst == InitAst /\ [][NextAst]_vars

Kinds(steps) == [j \in 1..Len(steps) |-> steps[j].k]
IsPrefix(a, b) == Len(a) <= Len(b) /\ a = SubSeq(b, 1, Len(a))

\* C4: once an Exit node is reached nothing after it executes, at any depth: the
\* Exit is the last leaf executed, the leaves executed are the leaves of the AST
\* up to its first Exit, and the result is Ok(false).
C4_ExitShortCircuits ==
    /\ (\E j \in 1..Len(exec.steps) : exec.steps[j].k = "Exit")
          => /\ exec.res = "false"
             /\ \A j \in 1..Len(exec.steps) :
                    exec.steps[j].k = "Exit" => j = Len(exec.steps)
             /\ IsPrefix(Kinds(exec.steps), Flatten(ast.cmd))
             /\ \A j \in 1..(Len(exec.steps) - 1) : exec.steps[j].ok
    /\ exec.res = "false" => exec.steps[Len(exec.steps)].k = "Exit"

C4_Witness ==
    /\ pc = "done"
    /\ ast.cmd = Sequence(<<Sequence(<<Continue, Exit>>), Continue>>)
    /\ attached_processes = <<1>>
    /\ Kinds(exec.steps) = <<"Continue", "Exit">>
    /\ exec.res = "false"

\* C5: when a Continue's engine call fails, nothing after it executes, at any
\* depth: the failed Continue is the last leaf executed, no engine call follows
\* it, and the error is the result.
C5_FailedContinueAborts ==
    /\ (\E j \in 1..Len(exec.steps) : ~exec.steps[j].ok)
          => /\ exec.res = "err"
             /\ \A j \in 1..Len(exec.steps) : ~exec.steps[j].ok => j = Len(exec.steps)
             /\ IsPrefix(Kinds(exec.steps), Flatten(ast.cmd))
             /\ last_call.op = "continue_execution" /\ last_call.res = "err"
    /\ exec.res = "err" => ~exec.steps[Len(exec.steps)].ok

C5_Witness ==
    /\ pc = "done"
    /\ ast.cmd = Sequence(<<Sequence(<<Continue, Continue>>), Exit>>)
    /\ attached_processes = <<1>>
    /\ Kinds(exec.steps) = <<"Continue", "Continue">>
    /\ exec.steps[1].ok /\ ~exec.steps[2].ok
    /\ exec.res = "err"

\* ------------------------------------------------ main.rs and the session
MaxHistory == 2         \* bound: submissions made to a Gui under any sequence of events
MaxSessionHistory == 2  \* bound: submissions made in a session of the whole program
MaxNav == 3             \* bound: the longest run of moves up that is followed
MaxQueue == 1           \* bound: events waiting in the channel
MaxMuxQueue == 2        \* bound: events waiting in the channel, tracees at rest

T_bogus == <<"b", "o", "g", "u", "s">>
Texts == {<<>>, T_continue, T_exit, T_bogus}   \* what the input widget can hold
SessionTexts == {<<>>, T_continue, T_exit}

\* An Event; key is the key of a terminal event, and for Event::Error the source
\* whose read failed (the Event itself does not carry it).
Ev(kind, key) == [kind |-> kind, key |-> key]
Keys == {"Enter", "CtrlD", "Up", "Down", "Other", "NotKey"}
Events == {Ev("Crossterm", k) : k \in Keys}
              \cup {Ev("Error", "terminal"), Ev("Error", "child"), Ev("Tick", ""),
                    Ev("ChildOutput", "")}

\* The thread the session future is resumed on after an await, were it spawned
\* on the runtime's workers.
ResumeThreadsSpawned(th) == {MainThread, WorkerThread}

\* The thread the session future is resumed on after an await: main calls
\* gui.run() itself, so it stays on the caller's thread.
ResumeThreads(th) == {th}

\* run_impl, line 215: what the loop does with the result of run_command.
SessionAfter(res) ==
    CASE res = "true" -> "await"
      [] res = "false" -> "ended_ok"
      [] res = "err" -> "ended_err"

G == GuiOf(history, history_current, index_history, input)

SetGui(g) ==
    /\ history' = g.history
    /\ history_current' = g.history_current
    /\ index_history' = g.index_history
    /\ input' = g.input

InitMain ==
    /\ InitDebugger /\ InitCommand /\ InitGui /\ InitMux
    /\ pc = "main"
    /\ loop_thread = MainThread

\* main, lines 98-99: --pid given.
MainAttach ==
    /\ pc = "main"
    /\ \E u \in AttachInputs, perm \in BOOLEAN : CallAddProc(u, perm, loop_thread)
    /\ pc' = "main_added"
    /\ UNCHANGED <<wait_i, cmd_vars, gui_vars, mux_vars, loop_thread>>

\* main, lines 100-104: a program given; its output handle goes to Gui::new.
MainSpawn ==
    /\ pc = "main"
    /\ \E program \in Programs, traceme_ok \in BOOLEAN :
          /\ CallAddProgram(program, traceme_ok, loop_thread)
          /\ child_output' =
                IF AddProgram(attached_processes, managed_processes, proc, program,
                              traceme_ok, loop_thread).res = "ok"
                THEN "Some" ELSE "None"
    /\ pc' = "main_added"
    /\ UNCHANGED <<wait_i, cmd_vars, history, history_current, index_history, input,
                   event, nav, mux_vars, loop_thread>>

\* main, line 107: debugger.wait()
MainWaitBegin ==
    /\ pc = "main_added"
    /\ WaitBegin(loop_thread)
    /\ pc' = "main_wait"
    /\ UNCHANGED <<cmd_vars, gui_vars, mux_vars, loop_thread>>

MainWaitStep ==
    /\ pc = "main_wait"
    /\ WaitStep(loop_thread, "gui_run")
    /\ UNCHANGED <<cmd_vars, gui_vars, mux_vars, loop_thread>>

\* Gui::run: the event task is created with the child's output, if any.
GuiRun ==
    /\ pc = "gui_run"
    /\ child_output_reader' = child_output
    /\ child_src' = IF child_output = "Some" THEN "open" ELSE "closed"
    /\ child_output' = "None"
    /\ pc' = "await"
    /\ UNCHANGED <<os_vars, dbg_vars, cmd_vars, history, history_current, index_history,
                   input, event, nav, rx, term_src, loop_thread>>

\* run_impl, line 196: events.next().await returns ev.
Receive(ev) ==
    /\ pc = "await"
    /\ event' = ev
    /\ ast' = NoAst
    /\ exec' = NoCommand
    /\ loop_thread' \in ResumeThreads(loop_thread)
    /\ pc' = "dispatch"
    /\ UNCHANGED <<os_vars, dbg_vars, history, history_current, index_history, input,
                   child_output, nav, child_output_reader, term_src, child_src>>

Dispatched(next) ==
    /\ event' = NoEvent
    /\ pc' = next
    /\ UNCHANGED <<os_vars, dbg_vars, cmd_vars, child_output, mux_vars, loop_thread>>

\* Event::Error
OnError ==
    /\ pc = "dispatch" /\ event.kind = "Error"
    /\ Dispatched("ended_err")
    /\ UNCHANGED <<history, history_current, index_history, input, nav>>

\* Event::Tick, Event::ChildOutput, and a terminal event that is no key
OnNothing ==
    /\ pc = "dispatch"
    /\ event.kind \in {"Tick", "ChildOutput"} \/ event = Ev("Crossterm", "NotKey")
    /\ Dispatched("await")
    /\ UNCHANGED <<history, history_current, index_history, input, nav>>

\* KeyCode::Char('d') with CONTROL
OnCtrlD ==
    /\ pc = "dispatch" /\ event = Ev("Crossterm", "CtrlD")
    /\ Dispatched("ended_ok")
    /\ UNCHANGED <<history, history_current, index_history, input, nav>>

\* KeyCode::Up
OnUp ==
    /\ pc = "dispatch" /\ event = Ev("Crossterm", "Up")
    /\ SetGui(MoveHistory(G, -1))
    /\ Dispatched("await")
    /\ UNCHANGED nav

\* KeyCode::Down
OnDown ==
    /\ pc = "dispatch" /\ event = Ev("Crossterm", "Down")
    /\ SetGui(MoveHistory(G, 1))
    /\ Dispatched("await")
    /\ UNCHANGED nav

\* any other key: the line-editing widget changes its value
OnOtherKey(texts) ==
    /\ pc = "dispatch" /\ event = Ev("Crossterm", "Other")
    /\ input' \in texts
    /\ Dispatched("await")
    /\ UNCHANGED <<history, history_current, index_history, nav>>

\* KeyCode::Enter: Gui::run_command up to the push, lines 269-280
OnEnter ==
    /\ pc = "dispatch" /\ event = Ev("Crossterm", "Enter")
    /\ LET r == Submit(G) IN
       /\ SetGui(r.g)
       /\ exec' = IF r.noop THEN [NoCommand EXCEPT !.res = "noop"]
                  ELSE [NoCommand EXCEPT !.text = r.command, !.res = "pending"]
       /\ pc' = IF r.noop THEN "await" ELSE "exec"
    /\ event' = NoEvent
    /\ UNCHANGED <<os_vars, dbg_vars, ast, child_output, nav, mux_vars, loop_thread>>

\* Gui::run_command from line 282 on: the command runs against the engine, and
\* run_impl acts on the result.
Executed(p, r) ==
    /\ ast' = [some |-> p.some, cmd |-> p.cmd]
    /\ exec' = [text |-> exec.text, res |-> r.res, steps |-> r.steps, out |-> r.out]
    /\ proc' = r.proc
    /\ last_call' = AfterEngineCalls(r.steps)
    /\ pc' = SessionAfter(r.res)

ExecCommand ==
    /\ pc = "exec"
    /\ Executed(ParseCommand(exec.text),
                RunCommand(exec.text, attached_processes, proc, loop_thread))
    /\ UNCHANGED <<tracer, attached_processes, managed_processes, wait_i, gui_vars,
                   mux_vars, loop_thread>>

\* The Gui, and the Debugger in it, are dropped when main ends; the channel went
\* with the event handler when Gui::run returned.
MainDrop ==
    /\ pc \in {"ended_ok", "ended_err"}
    /\ CallDrop(loop_thread)
    /\ pc' = "dropped"
    /\ rx' = <<>>
    /\ UNCHANGED <<wait_i, cmd_vars, gui_vars, child_output_reader, term_src, child_src,
                   loop_thread>>

Main == MainAttach \/ MainSpawn \/ MainWaitBegin \/ MainWaitStep \/ GuiRun \/ MainDrop

Handlers(texts) ==
    \/ OnError \/ OnNothing \/ OnCtrlD \/ OnUp \/ OnDown \/ OnOtherKey(texts) \/ OnEnter
    \/ ExecCommand

\* ---- the Gui under any sequence of events
GuiEvent ==
    /\ \E ev \in Events :
          /\ ~(ev = Ev("Crossterm", "Enter") /\ Len(history) >= MaxHistory)
          /\ Receive(ev)
    /\ UNCHANGED rx

NextGui == Main \/ GuiEvent \/ Handlers(Texts) \/ Env

SpecGui == InitMain /\ [][NextGui]_vars

\* ---- the whole program: the event task feeds the session loop
Running == pc \in {"await", "dispatch", "exec"}

\* Submissions made and still to be made by the Enter keys in the channel.
Submissions == Len(history) + Cardinality({j \in 1..Len(rx) : rx[j] = Ev("Crossterm", "Enter")})

\* tx.send putting the event ahead of those waiting (a stack, not a queue).
EmitFront(ev, max_queue) ==
    /\ Running
    /\ Len(rx) < max_queue
    /\ ~(ev = Ev("Crossterm", "Enter") /\ Submissions >= MaxSessionHistory)
    /\ rx' = <<ev>> \o rx
    /\ UNCHANGED <<os_vars, dbg_vars, cmd_vars, gui_vars, pc, loop_thread>>

\* tx.send(ev) in the event task
Emit(ev, max_queue) ==
    /\ Running
    /\ Len(rx) < max_queue
    /\ ~(ev = Ev("Crossterm", "Enter") /\ Submissions >= MaxSessionHistory)
    /\ rx' = Append(rx, ev)
    /\ UNCHANGED <<os_vars, dbg_vars, cmd_vars, gui_vars, pc, loop_thread>>

\* select!: the terminal stream yields Some(Ok(evt))
TaskCrossterm(max_queue) ==
    /\ term_src = "open"
    /\ \E k \in Keys : Emit(Ev("Crossterm", k), max_queue)
    /\ UNCHANGED <<child_output_reader, term_src, child_src>>

\* select!: the terminal stream yields Some(Err(_))
TaskCrosstermErr(max_queue) ==
    /\ term_src = "open"
    /\ Emit(Ev("Error", "terminal"), max_queue)
    /\ UNCHANGED <<child_output_reader, term_src, child_src>>

\* select! polling the child's output first and the interval only if it is not ready.
TaskTickAfterChild(max_queue) ==
    /\ ~(child_output_reader = "Some" /\ child_src = "open")
    /\ Emit(Ev("Tick", ""), max_queue)
    /\ UNCHANGED <<child_output_reader, term_src, child_src>>

\* select!: the interval ticks
TaskTick(max_queue) ==
    /\ Emit(Ev("Tick", ""), max_queue)
    /\ UNCHANGED <<child_output_reader, term_src, child_src>>

\* select!: next_line() yields Ok(Some(line))
TaskChildLine(max_queue) ==
    /\ child_output_reader = "Some" /\ child_src = "open"
    /\ Emit(Ev("ChildOutput", ""), max_queue)
    /\ UNCHANGED <<child_output_reader, term_src, child_src>>

\* The end of the child's output treated as a read error.
TaskChildEofAsError ==
    /\ Running
    /\ child_output_reader = "Some" /\ child_src = "closed"
    /\ child_output_reader' = "None"
    /\ rx' = Append(rx, Ev("Error", "child"))
    /\ UNCHANGED <<os_vars, dbg_vars, cmd_vars, gui_vars, pc, loop_thread, term_src, child_src>>

\* select!: next_line() yields Ok(None)
TaskChildEof ==
    /\ Running
    /\ child_output_reader = "Some" /\ child_src = "closed"
    /\ child_output_reader' = "None"
    /\ UNCHANGED <<os_vars, dbg_vars, cmd_vars, gui_vars, pc, loop_thread, rx, term_src,
                   child_src>>

\* A read error of the child's output treated as its end.
TaskChildErrSilent(max_queue) ==
    /\ Running
    /\ child_output_reader = "Some" /\ child_src = "open"
    /\ child_output_reader' = "None"
    /\ UNCHANGED <<os_vars, dbg_vars, cmd_vars, gui_vars, pc, loop_thread, rx, term_src,
                   child_src>>

\* select!: next_line() yields Err(_)
TaskChildErr(max_queue) ==
    /\ child_output_reader = "Some" /\ child_src = "open"
    /\ Emit(Ev("Error", "child"), max_queue)
    /\ child_output_reader' = "None"
    /\ UNCHANGED <<term_src, child_src>>

\* The child closes its standard output.
EnvChildClose ==
    /\ child_src = "open"
    /\ child_src' = "closed"
    /\ UNCHANGED <<os_vars, dbg_vars, cmd_vars, gui_vars, pc, loop_thread, rx,
                   child_output_reader, term_src>>

Task(max_queue) ==
    \/ TaskCrossterm(max_queue) \/ TaskCrosstermErr(max_queue) \/ TaskTick(max_queue)
    \/ TaskChildLine(max_queue) \/ TaskChildEof \/ TaskChildErr(max_queue)

LoopReceive ==
    /\ rx # <<>>
    /\ Receive(Head(rx))
    /\ rx' = Tail(rx)

Init == InitMain

Next == Main \/ Task(MaxQueue) \/ LoopReceive \/ Handlers(SessionTexts) \/ Env \/ EnvChildClose

Spec == Init /\ [][Next]_vars

\* ---- the event task and the session loop, the tracees at rest during the session
EnvBefore ==
    /\ pc \in {"main_added", "main_wait"}
    /\ Env

MainProgram == MainSpawn \/ MainWaitBegin \/ MainWaitStep \/ GuiRun \/ MainDrop

Loop == LoopReceive \/ Handlers(SessionTexts)

NextMux == MainProgram \/ EnvBefore \/ Task(MaxMuxQueue) \/ Loop \/ EnvChildClose

SpecMux == InitMain /\ [][NextMux]_vars

\* The same with nothing typed on the command line: no command is ever run.
LoopIdle ==
    \/ LoopReceive
    \/ OnError \/ OnNothing \/ OnCtrlD \/ OnUp \/ OnDown \/ OnOtherKey({<<>>}) \/ OnEnter

NextIdle == MainProgram \/ EnvBefore \/ Task(MaxMuxQueue) \/ LoopIdle \/ EnvChildClose

\* select! polls its branches from a random one on: a branch that is ready again
\* and again is taken; the session loop runs whenever it can.
FairMux ==
    /\ InitMain /\ [][NextIdle]_vars
    /\ WF_vars(LoopIdle)
    /\ SF_vars(TaskCrossterm(MaxMuxQueue))
    /\ SF_vars(TaskTick(MaxMuxQueue))
    /\ SF_vars(TaskChildLine(MaxMuxQueue))

\* ---------------------------------------------------- claims on the session
FailedContinue(steps) == \E j \in 1..Len(steps) : steps[j].k = "Continue" /\ ~steps[j].ok

\* C2: when an engine call made while executing a submitted command fails, the
\* session loop stays open: it is back at awaiting the next event and has not
\* terminated.
C2_EngineErrorKeepsSessionOpen ==
    (exec.res = "err" /\ FailedContinue(exec.steps)) => pc = "await"

TracingCalls == {"attach", "spawn", "waitpid", "cont"}

\* C8: every tracing call on a tracee (the wait and resume calls after its attach
\* or spawn) is issued from the thread that attached or spawned it, under every
\* interleaving of the session loop, the event task and the environment.
C8_TracingCallsOnTracerThread ==
    \A k \in 1..Len(last_call.sys) :
        (/\ last_call.sys[k].call \in TracingCalls
         /\ last_call.sys[k].pid \in Pids
         /\ tracer[last_call.sys[k].pid] # "none")
            => last_call.sys[k].thread = tracer[last_call.sys[k].pid]

C8_Witness ==
    /\ pc = "await" /\ exec.res = "true" /\ rx # <<>>
    /\ last_call.op = "continue_execution"
    /\ \E k \in 1..Len(last_call.sys) :
          /\ last_call.sys[k].call = "cont" /\ last_call.sys[k].ok
          /\ tracer[last_call.sys[k].pid] = MainThread
          /\ last_call.sys[k].thread = MainThread

EnterEvent == Ev("Crossterm", "Enter")
Submitted == IF input # <<>> THEN input ELSE history[Len(history)]

\* C10: a submission that is not a no-op appends exactly one entry, the executed
\* text, to history, leaves the earlier entries as they were, puts the cursor at
\* the fresh-line position and empties the scratch buffer, all before the
\* command runs against the engine; running the command, whatever its outcome,
\* leaves these fields alone and executes the entry just appended.
C10_SubmissionRecordsBeforeExecuting ==
    [][ /\ (pc = "dispatch" /\ event = EnterEvent /\ pc' # "dispatch"
               /\ (input # <<>> \/ history # <<>>))
            => /\ history' = Append(history, Submitted)
               /\ index_history' = Len(history')
               /\ history_current' = <<>>
               /\ pc' = "exec" /\ exec'.text = Submitted /\ exec'.res = "pending"
               /\ proc' = proc /\ last_call' = last_call
        /\ (pc = "exec" /\ pc' # "exec")
            => /\ <<history, index_history, history_current>>' =
                     <<history, index_history, history_current>>
               /\ exec'.text = history[Len(history)]
               /\ exec'.res \in {"true", "false", "err"}
      ]_vars

C10_Witness ==
    /\ pc = "ended_err" /\ exec.res = "err"
    /\ Len(history) = 2 /\ history[2] = history[1] /\ exec.text = history[2]
    /\ index_history = 2 /\ history_current = <<>> /\ input = <<>>

\* C11: submitting an empty input while history is empty is a no-op: history,
\* cursor and scratch buffer stay as they are, nothing is parsed or executed, no
\* engine call is made, and the session goes on awaiting the next event.
C11_EmptySubmissionIsNoOp ==
    [][ (pc = "dispatch" /\ event = EnterEvent /\ pc' # "dispatch"
            /\ input = <<>> /\ history = <<>>)
          => /\ <<history, index_history, history_current, input>>' =
                   <<history, index_history, history_current, input>>
             /\ ast' = NoAst /\ exec'.text = <<>> /\ exec'.steps = <<>> /\ exec'.out = <<>>
             /\ exec'.res = "noop"
             /\ last_call' = last_call /\ proc' = proc
             /\ pc' = "await"
      ]_vars

C11_Witness ==
    /\ pc = "await" /\ exec.res = "noop"
    /\ history = <<>> /\ index_history = 0 /\ history_current = <<>> /\ input = <<>>
    /\ attached_processes # <<>> /\ last_call.op = "wait"

\* C21: in every reachable session state, after any sequence of key edits,
\* history moves and submissions, the cursor satisfies
\* 0 <= index_history <= len(history); history only grows by appending (no
\* entry is removed or rewritten); and right after every submission that is not
\* a no-op, both when the entry has been pushed and when the command has run,
\* the cursor equals len(history) and the scratch buffer is empty.
C21_CursorAndHistoryInvariants ==
    /\ [](index_history \in 0..Len(history))
    /\ [][ /\ Len(history') >= Len(history)
           /\ SubSeq(history', 1, Len(history)) = history
           /\ (pc = "dispatch" /\ event = EnterEvent /\ pc' # "dispatch"
                  /\ (input # <<>> \/ history # <<>>))
                => (index_history' = Len(history') /\ history_current' = <<>>)
           /\ (pc = "exec" /\ pc' # "exec")
                => (index_history' = Len(history') /\ history_current' = <<>>)
         ]_vars

C21_Witness ==
    /\ pc = "await" /\ exec.res = "true"
    /\ Len(history) = 2 /\ history[1] # history[2] /\ exec.text = history[2]
    /\ index_history = Len(history) /\ history_current = <<>> /\ input = <<>>

\* ---------------------------------------------------- claims on the multiplexer
ChildReady == Running /\ child_output_reader = "Some" /\ child_src = "open"

\* C14: no starvation: under fair scheduling, if the child's output is ready on
\* every iteration from some point on, a tick and a terminal event are still
\* emitted to the channel again and again.
C14_NoStarvation ==
    (<>[]ChildReady)
        => /\ []<><<TaskTick(MaxMuxQueue)>>_vars
           /\ []<><<TaskCrossterm(MaxMuxQueue)>>_vars

C14_Witness ==
    /\ ChildReady
    /\ rx = <<Ev("ChildOutput", ""), Ev("Tick", "")>>

ChildRemoved == Running /\ child_output_reader = "None"

\* C12: when the child's output reaches its end the task removes it for good,
\* emits no event for it and goes on: the session is where it was, and under
\* fair scheduling ticks and terminal events keep being emitted for as long as
\* the session runs.
C12_ChildEofRemovesSourceOnly ==
    /\ [][ (child_output_reader = "Some" /\ child_src = "closed"
               /\ child_output_reader' # child_output_reader)
             => (child_output_reader' = "None" /\ rx' = rx /\ pc' = pc /\ event' = event) ]_vars
    /\ [][ ChildRemoved => child_output_reader' = "None" ]_vars
    /\ (<>[]ChildRemoved)
          => /\ []<><<TaskTick(MaxMuxQueue)>>_vars
             /\ []<><<TaskCrossterm(MaxMuxQueue)>>_vars

C12_Witness ==
    /\ pc = "await" /\ ChildRemoved
    /\ managed_processes # <<>> /\ child_src = "closed"
    /\ rx = <<Ev("Tick", ""), Ev("Crossterm", "Other")>>

\* C13: a read error on the terminal input or on the child's output emits an
\* error event and removes that source from the poll set; the error of the
\* terminal input ends the session, the error of the child's output leaves the
\* session running.
C13_OnlyTerminalErrorEndsSession ==
    /\ [][ (child_output_reader = "Some" /\ child_src = "open"
               /\ child_output_reader' # child_output_reader)
             => (child_output_reader' = "None" /\ rx' = Append(rx, Ev("Error", "child"))) ]_vars
    /\ [][ (pc = "dispatch" /\ event = Ev("Error", "terminal") /\ pc' # pc)
             => pc' = "ended_err" ]_vars
    /\ [][ (pc = "dispatch" /\ event = Ev("Error", "child") /\ pc' # pc)
             => pc' = "await" ]_vars
    /\ [][ (Running /\ Len(rx') = Len(rx) + 1 /\ rx'[Len(rx')] = Ev("Error", "terminal"))
             => term_src' # "open" ]_vars

\* C15: every event the task emits is received by the session loop exactly once
\* and in the order of emission: an emission puts the event behind those
\* waiting and leaves them and the loop alone, also while the loop is in an
\* engine call; the loop takes the oldest waiting event and removes it, and
\* handles nothing else; nothing else touches the channel while the session runs.
C15_EventsDeliveredOnceInOrder ==
    /\ [][ (rx' # rx)
             => \/ /\ Running /\ pc' = pc /\ event' = event
                   /\ \E ev \in Events : rx' = Append(rx, ev)
                \/ /\ rx # <<>> /\ pc = "await" /\ pc' = "dispatch"
                   /\ event' = Head(rx) /\ rx' = Tail(rx)
                \/ pc' = "dropped" ]_vars
    /\ [][ (pc = "await" /\ pc' # pc)
             => (rx # <<>> /\ pc' = "dispatch" /\ event' = Head(rx) /\ rx' = Tail(rx)) ]_vars
    /\ [][ (pc = "dispatch" /\ pc' # pc) => (event' = NoEvent /\ rx' = rx) ]_vars

C15_Witness ==
    /\ pc = "exec" /\ exec.text = T_continue
    /\ rx = <<Ev("Crossterm", "Up"), Ev("ChildOutput", "")>>

\* The AST without its Error nodes.
RECURSIVE StripErrors(_)
RECURSIVE StripAll(_, _)
StripAll(commands, i) ==
    IF i > Len(commands) THEN <<>>
    ELSE IF commands[i].k = "Error" THEN StripAll(commands, i + 1)
    ELSE <<StripErrors(commands[i])>> \o StripAll(commands, i + 1)
StripErrors(command) ==
    CASE command.k = "Sequence" -> Sequence(StripAll(command.cmds, 1))
      [] command.k = "Error" -> Sequence(<<>>)
      [] OTHER -> command

NotErrorStep(st) == st.k # "Error"
ErrorStep(st) == st.k = "Error"

\* C16: an Error node never affects engine state: executing it issues no engine
\* call and writes one line of text, and the run goes as the run of the AST
\* without its Error nodes goes (the same engine calls in the same order with the
\* same effects, the same result), so the elements after an Error node are
\* executed in order at every depth and an Error node alone never ends the
\* session; a text with no AST issues no engine call and keeps the session open.
C16_ErrorNodeIsInert ==
    [][ (pc = "ready" /\ pc' = "done")
          => LET r == RunParsed([some |-> ast.some, cmd |-> StripErrors(ast.cmd)],
                                attached_processes, proc, loop_thread) IN
             /\ \A j \in 1..Len(exec'.steps) :
                    ErrorStep(exec'.steps[j]) => (exec'.steps[j].sys = <<>> /\ exec'.steps[j].ok)
             /\ proc' = r.proc /\ exec'.res = r.res
             /\ SelectSeq(exec'.steps, NotErrorStep) = r.steps
             /\ Len(exec'.out) = Len(SelectSeq(exec'.steps, ErrorStep))
             /\ exec'.res = "true" => (ast.some => Kinds(exec'.steps) = Flatten(ast.cmd))
             /\ (\A j \in 1..Len(exec'.steps) : ErrorStep(exec'.steps[j]))
                    => (exec'.res = "true" /\ proc' = proc /\ last_call' = last_call
                        /\ SessionAfter(exec'.res) = "await")
             /\ ~ast.some => exec'.steps = <<>>
      ]_vars

C16_Witness ==
    /\ pc = "done"
    /\ ast.cmd = Sequence(<<Sequence(<<Error(<<"x">>), Continue>>), Error(<<"x">>)>>)
    /\ attached_processes = <<1>>
    /\ Kinds(exec.steps) = <<"Error", "Continue", "Error">>
    /\ exec.steps[2].ok /\ exec.res = "true" /\ proc[1] = "running"

\* ---- parse_command on ';'-separated command lines
MaxSegments == 3   \* bound: the single-commands on a parsed line

Words == {T_continue, T_exit, T_bogus}
Pads == {<<>>, <<" ">>}
Segments == {a \o w \o b : a \in Pads, w \in Words, b \in Pads}

RECURSIVE Join(_, _)
Join(segs, i) ==
    IF i > Len(segs) THEN <<>>
    ELSE IF i = Len(segs) THEN segs[i]
    ELSE segs[i] \o <<";">> \o Join(segs, i + 1)

ParseInputs == {Join(segs, 1) : segs \in UNION {[1..n -> Segments] : n \in 1..MaxSegments}}

InitParse ==
    /\ InitDebugger /\ InitMux
    /\ history = <<>> /\ history_current = <<>> /\ index_history = 0
    /\ event = NoEvent /\ child_output = "None" /\ nav = NoNav
    /\ ast = NoAst /\ exec = NoCommand
    /\ input \in ParseInputs
    /\ pc = "parse"
    /\ loop_thread = MainThread

\* parse_command(input, output): the AST, if any, and the diagnostics written.
Parsed(p) ==
    /\ ast' = [some |-> p.some, cmd |-> p.cmd]
    /\ exec' = [NoCommand EXCEPT !.text = input, !.out = p.errs]

Parse ==
    /\ pc = "parse"
    /\ Parsed(ParseCommand(input))
    /\ pc' = "parsed"
    /\ UNCHANGED <<os_vars, dbg_vars, gui_vars, mux_vars, loop_thread>>

NextParse == Parse

SpecParse == InitParse /\ [][NextParse]_vars

\* The single-commands of a line, as the text between its separators.
RECURSIVE SplitFrom(_, _, _)
SplitFrom(s, i, cur) ==
    IF i > Len(s) THEN <<cur>>
    ELSE IF s[i] = ";" THEN <<cur>> \o SplitFrom(s, i + 1, <<>>)
    ELSE SplitFrom(s, i + 1, Append(cur, s[i]))
Split(s) == SplitFrom(s, 1, <<>>)

NodeOf(word) ==
    IF word = T_continue THEN Continue ELSE IF word = T_exit THEN Exit ELSE Error(word)

RECURSIVE StartOf(_, _)
\* Where the word of the j-th single-command starts in the line (from 1).
StartOf(segs, j) ==
    IF j = 1 THEN SkipWs(segs[1], 1)
    ELSE StartOf(segs, j - 1) - SkipWs(segs[j - 1], 1) + Len(segs[j - 1]) + 1
         + SkipWs(segs[j], 1)

\* C17: a ';'-separated line in which one single-command is an unrecognized
\* alphabetic run, with optional whitespace around the single-commands, parses to
\* the Sequence of its commands in order, with Error(run) in the place of the
\* run, and exactly one diagnostic, which lies on the run.
C17_RecoversUnrecognizedCommand ==
    pc = "parsed" =>
        LET line == Trim(exec.text)
            segs == Split(line)
            words == [j \in 1..Len(segs) |-> Trim(segs[j])]
            bad == {j \in 1..Len(segs) : words[j] \notin {T_continue, T_exit}}
        IN Cardinality(bad) = 1 =>
              LET j == CHOOSE b \in bad : TRUE IN
              /\ ast.some
              /\ ast.cmd = Sequence([k \in 1..Len(segs) |-> NodeOf(words[k])])
              /\ Len(exec.out) = 1
              /\ exec.out[1].from >= StartOf(segs, j)
              /\ exec.out[1].to <= StartOf(segs, j) + Len(words[j])

\* C18: with several tracees, a failure on one tracee during wait() or
\* continue_execution() does not stop the call: every tracee after the failing
\* one is still waited on (resumed), and the failure is reported at the end.
C18_FailureDoesNotSkipLaterTracees ==
    (last_call.op \in {"wait", "continue_execution"} /\ last_call.res = "err")
        => /\ Len(last_call.sys) = Len(attached_processes)
           /\ \A k \in 1..Len(last_call.sys) : last_call.sys[k].pid = attached_processes[k]

\* C19: every iteration of the task's loop emits exactly one event to the
\* channel.
C19_OneEventPerIteration ==
    [][ Task(MaxQueue) => \E ev \in Events : rx' = Append(rx, ev) ]_vars

\* C19, amended: every iteration emits at most one event, and exactly one unless
\* it found the child's output at its end: that iteration emits nothing and
\* removes the child's output.
C19_OneEventPerIterationButEof ==
    [][ Task(MaxQueue)
          => \/ /\ \E ev \in Events : rx' = Append(rx, ev)
                /\ (child_output_reader' # child_output_reader) => child_src = "open"
             \/ /\ rx' = rx
                /\ child_output_reader = "Some" /\ child_src = "closed"
                /\ child_output_reader' = "None" ]_vars

C19_Witness ==
    /\ pc = "await" /\ child_output_reader = "None"
    /\ managed_processes # <<>> /\ child_src = "closed"
    /\ rx = <<Ev("ChildOutput", "")>>

\* ---- history navigation from the fresh-line position
HistoriesUpTo(n) == UNION {[1..m -> Texts \ {<<>>}] : m \in 1..n}

\* A Gui at the fresh-line position, as submissions, edits and earlier moves
\* leave it: any text in the input and, once there is history, in
\* history_current.
InitNav ==
    /\ InitDebugger /\ InitCommand /\ InitMux
    /\ pc = "await"
    /\ loop_thread = MainThread
    /\ event = NoEvent
    /\ child_output = "None"
    /\ history \in HistoriesUpTo(MaxHistory) \cup {<<>>}
    /\ index_history = Len(history)
    /\ input \in Texts
    /\ history_current \in (IF history = <<>> THEN {<<>>} ELSE Texts)
    /\ nav = [on |-> TRUE, orig |-> input, ups |-> 0, downs |-> 0]

\* move_history(-1), while only moves up have been made.
NavUp ==
    /\ nav.downs = 0 /\ nav.ups < MaxNav
    /\ SetGui(MoveHistory(G, -1))
    /\ nav' = [nav EXCEPT !.ups = @ + 1]
    /\ UNCHANGED <<os_vars, dbg_vars, cmd_vars, event, child_output, mux_vars, pc, loop_thread>>

\* move_history(+1), until one more move down than up has been made.
NavDown ==
    /\ nav.downs <= nav.ups
    /\ SetGui(MoveHistory(G, 1))
    /\ nav' = [nav EXCEPT !.downs = @ + 1]
    /\ UNCHANGED <<os_vars, dbg_vars, cmd_vars, event, child_output, mux_vars, pc, loop_thread>>

\* A key that edits the input: the moves so far are no longer a run of moves only.
NavEdit ==
    /\ nav.on
    /\ input' \in Texts
    /\ nav' = [nav EXCEPT !.on = FALSE]
    /\ UNCHANGED <<os_vars, dbg_vars, cmd_vars, history, history_current, index_history,
                   event, child_output, mux_vars, pc, loop_thread>>

NextNav == NavUp \/ NavDown \/ NavEdit

SpecNav == InitNav /\ [][NextNav]_vars

\* C9: from the fresh-line position with history, k >= 1 moves up followed by k
\* moves down leave the cursor at the fresh-line position and the input equal to
\* the text it held before the first move, also when k exceeds the history length.
C9_HistoryRoundTrip ==
    (nav.on /\ history # <<>> /\ nav.ups >= 1 /\ nav.downs = nav.ups)
        => (index_history = Len(history) /\ input = nav.orig)

C9_Witness ==
    /\ nav.on /\ nav.ups = nav.downs /\ nav.ups > Len(history)
    /\ Len(history) = 2 /\ history[1] # history[2]
    /\ nav.orig # <<>> /\ nav.orig # history[1] /\ nav.orig # history[2]
    /\ input = nav.orig

\* C20: move_history(-1) and move_history(+1) change nothing (history, cursor,
\* scratch buffer, input text) when history is empty, when the cursor is at 0 and
\* the move is up, and when the cursor is at the fresh-line position and the
\* move is down.
C20_MovesAtTheEdgesAreNoOps ==
    [][ (\/ history = <<>> /\ (nav'.ups > nav.ups \/ nav'.downs > nav.downs)
         \/ index_history = 0 /\ nav'.ups > nav.ups
         \/ index_history = Len(history) /\ nav'.downs > nav.downs)
          => <<history, index_history, history_current, input>>' =
                <<history, index_history, history_current, input>> ]_vars

C20_Witness ==
    /\ nav.on /\ Len(history) = 2 /\ nav.ups > Len(history) /\ nav.downs > nav.ups
    /\ index_history = Len(history)
    /\ input = T_bogus /\ history_current = T_bogus /\ T_bogus \notin {history[1], history[2]}

====
